---- MODULE Spec2Model ----
(***************************************************************************)
(* Persona.AI (Persona_Streamlit.py): the recording session pipeline, the  *)
(* Gemini feedback call with its local fallback, and the progress /        *)
(* streak / badge tracker kept in st.session_state.                        *)
(*                                                                         *)
(* Numbers are exact rationals [t |-> "num", n, d] (d > 0, lowest terms);  *)
(* a metric of 72.5 is Num(145, 2).  JSON values that are not numbers      *)
(* carry another tag, so that comparing them with a number is the          *)
(* TypeError it is in Python.                                              *)
(***************************************************************************)
EXTENDS Integers, Sequences, FiniteSets, TLC

VARIABLES
    \* st.session_state
    history, badges, sessions_completed, streak, last_session_date,
    gemini_api_key,
    \* main(): position of the script run and its locals
    pc, error, st_error, facial_data, avg_facial_metrics, audio_metrics,
    feedback, new_badges,
    \* the landmark detector's result for each frame read by the capture loop
    frames,
    \* the record_audio thread and the wav file it writes
    audio_thread, audio_file,
    \* environment: the remote service's behaviour in the latest request and
    \* the date datetime.now() gave the latest update_progress call
    remote, today,
    \* st.session_state as it was when the latest update_progress call began
    pre

vars == <<history, badges, sessions_completed, streak, last_session_date,
          gemini_api_key, pc, error, st_error, facial_data,
          avg_facial_metrics, audio_metrics, feedback, new_badges,
          frames, audio_thread, audio_file, remote, today, pre>>

----------------------------------------------------------------------------
\* Bounds of the model.

\* frames one capture loop may collect before the duration has elapsed
MaxFrames == 2
\* recording sessions started in one behaviour of the session pipeline
MaxRuns == 1
\* update_progress calls that count a new day, in the progress tracker
MaxSessions == 6
\* dates are days 0..MaxDay
MaxDay == 3

----------------------------------------------------------------------------
\* Numbers (Python floats, modelled exactly).

RECURSIVE GCD(_, _)
GCD(a, b) == IF b = 0 THEN a ELSE GCD(b, a % b)

Num(n, d) ==
    LET g == GCD(IF n < 0 THEN -n ELSE n, d)
    IN  [t |-> "num", n |-> n \div g, d |-> d \div g]

Int2Num(k) == Num(k, 1)

\* JSON values that are not numbers: a string and null
JStr == [t |-> "str", n |-> 0, d |-> 1]
JNull == [t |-> "null", n |-> 0, d |-> 1]

IsNumber(v) == v.t = "num"

RAdd(a, b) == Num(a.n * b.d + b.n * a.d, a.d * b.d)
RDiv(a, k) == Num(a.n, a.d * k)
\* a > k, a < k for a number a and an integer literal k
RGt(a, k) == a.n > k * a.d
RLt(a, k) == a.n < k * a.d

RECURSIVE RSum(_)
RSum(s) == IF s = <<>> THEN Int2Num(0) ELSE RAdd(Head(s), RSum(Tail(s)))

\* np.mean of a non-empty list
np_mean(s) == RDiv(RSum(s), Len(s))

----------------------------------------------------------------------------
\* generate_feedback_fallback

required_fields == {"overall_score", "expression_score", "voice_score",
                    "strengths", "areas_to_improve", "tips"}

\* A decoded JSON value in the place of a feedback report.  kind is the
\* Python type json.loads gave; keys is what `field in feedback` finds: the
\* keys of a dict, the elements of a list, the substrings of a str.
Report(kind, keys, o, e, v, s, a, t) ==
    [kind |-> kind, keys |-> keys,
     overall_score |-> o, expression_score |-> e, voice_score |-> v,
     strengths |-> s, areas_to_improve |-> a, tips |-> t]

generate_feedback_fallback(facial, audio) ==
    LET expression_score == np_mean(<<facial.expression_diversity,
                                      facial.eye_movement,
                                      facial.mouth_movement>>)
        voice_score == np_mean(<<audio.volume,
                                 audio.pitch_variation,
                                 audio.speech_rate,
                                 audio.clarity>>)
        overall_score == RDiv(RAdd(expression_score, voice_score), 2)
        \* Identify strengths
        s1 == IF RGt(facial.eye_movement, 70)
              THEN <<"Good eye expressiveness">> ELSE <<>>
        s2 == IF RGt(audio.pitch_variation, 70)
              THEN <<"Excellent vocal variety">> ELSE <<>>
        s3 == IF RGt(audio.clarity, 80)
              THEN <<"Clear pronunciation">> ELSE <<>>
        strengths == s1 \o s2 \o s3
        \* Identify areas to improve
        mouth == RLt(facial.mouth_movement, 60)
        slow == RLt(audio.speech_rate, 50)
        fast == ~slow /\ RGt(audio.speech_rate, 85)
        a1 == IF mouth THEN <<"Facial expressions">> ELSE <<>>
        t1 == IF mouth
              THEN <<"Try to be more expressive with your mouth when speaking">>
              ELSE <<>>
        a2 == IF slow \/ fast THEN <<"Speech pace">> ELSE <<>>
        t2 == IF slow
              THEN <<"Consider speaking a bit faster to maintain audience engagement">>
              ELSE IF fast THEN <<"Try slowing down a bit to ensure clarity">>
              ELSE <<>>
        areas == a1 \o a2
        tips == t1 \o t2
        \* Ensure we have at least some feedback
        strengths2 == IF strengths = <<>> THEN <<"Consistent delivery">>
                      ELSE strengths
        areas2 == IF areas = <<>> THEN <<"Fine-tuning your natural style">>
                  ELSE areas
        tips2 == IF areas = <<>>
                 THEN tips \o <<"Continue practicing to build on your strengths">>
                 ELSE tips
    IN  Report("dict", required_fields, overall_score, expression_score,
               voice_score, strengths2, areas2, tips2)

----------------------------------------------------------------------------
\* get_gemini_feedback

\* What the remote service does with one request.  outcome names the first
\* statement of the try block that does not go the expected way, or
\* "payload" when the text of the first candidate decodes as JSON.
NoPayload == Report("none", {}, JNull, JNull, JNull, <<>>, <<>>, <<>>)

Failure(outcome) == [outcome |-> outcome, payload |-> NoPayload]
Response(p) == [outcome |-> "payload", payload |-> p]
NoRequest == Failure("none")

\* requests.post raises; raise_for_status raises on a non-2xx status;
\* response.json() raises; candidates[0]['content']['parts'][0]['text']
\* raises KeyError/IndexError/TypeError; json.loads(text_content) raises
RaisingOutcomes == {"ConnectionError", "HTTPError", "body_not_json",
                    "candidate_malformed", "text_not_json"}
\* 'candidates' missing from the decoded body, or an empty list
ElseOutcomes == {"no_candidates"}

\* `field not in feedback` raises TypeError for a decoded number or null
MembershipRaises(p) == p.kind \in {"number", "null"}

\* the except branch of get_gemini_feedback is taken
gemini_raises(r) ==
    \/ r.outcome \in RaisingOutcomes
    \/ r.outcome = "payload" /\ MembershipRaises(r.payload)

get_gemini_feedback(facial, audio, api_key, r) ==
    IF api_key = ""
    THEN generate_feedback_fallback(facial, audio)
    ELSE IF gemini_raises(r)
    THEN generate_feedback_fallback(facial, audio)
    ELSE IF r.outcome \in ElseOutcomes
    THEN generate_feedback_fallback(facial, audio)
    ELSE IF \E field \in required_fields : field \notin r.payload.keys
    THEN generate_feedback_fallback(facial, audio)
    ELSE r.payload

----------------------------------------------------------------------------
\* update_progress

\* st.session_state.last_session_date = None
NoDate == -1

Days == 0..MaxDay

InSeq(x, s) == \E i \in 1..Len(s) : s[i] = x

ProgressState(sc, stk, last, b) ==
    [sessions_completed |-> sc, streak |-> stk, last_session_date |-> last,
     badges |-> b]

\* StreakAfterGap with the streak zeroed after a gap
StreakAfterGap_Zeroed(stk, days_diff) ==
    IF days_diff = 1 THEN stk + 1
    ELSE IF days_diff > 1 THEN 0
    ELSE stk

\* StreakAfterGap with the reset after a gap lost: the streak is preserved
StreakAfterGap_Preserved(stk, days_diff) ==
    IF days_diff = 1 THEN stk + 1 ELSE stk

\* the streak after a counted session days_diff days after the last one
StreakAfterGap(stk, days_diff) ==
    IF days_diff = 1 THEN stk + 1
    ELSE IF days_diff > 1 THEN 1
    ELSE stk

\* UpdateStreak without the same-day test: every call counts as a new day
UpdateStreak_CountsEveryCall(st, date) ==
    ProgressState(
        st.sessions_completed + 1,
        IF st.last_session_date # NoDate
        THEN StreakAfterGap(st.streak, date - st.last_session_date)
        ELSE 1,
        date,
        st.badges)

\* "Update streak": the first block of update_progress
UpdateStreak(st, date) ==
    IF st.last_session_date = NoDate \/ st.last_session_date # date
    THEN ProgressState(
             st.sessions_completed + 1,
             IF st.last_session_date # NoDate
             THEN StreakAfterGap(st.streak, date - st.last_session_date)
             ELSE 1,
             date,
             st.badges)
    ELSE st

\* feedback[field] > k raises: feedback is no dict (TypeError), or the value
\* does not compare with a number (TypeError)
ScoreRaises(fb, field) == fb.kind # "dict" \/ ~IsNumber(fb[field])

\* the milestone conditions of the badge rules
DedicatedLearnerDue(sc) == sc = 5
StreakBadgeDue(stk) == stk >= 3

\* one badge rule: b is [badges, new_badges, raised] so far
Award(b, raises, due, new_badge) ==
    IF b.raised THEN b
    ELSE IF raises THEN [b EXCEPT !.raised = TRUE]
    ELSE IF due /\ ~InSeq(new_badge, b.badges)
    THEN [b EXCEPT !.badges = Append(b.badges, new_badge),
                   !.new_badges = Append(b.new_badges, new_badge)]
    ELSE b

\* "Award badges": the five rules in the order of the code
AwardBadges(st, fb) ==
    LET b0 == [badges |-> st.badges, new_badges |-> <<>>, raised |-> FALSE]
        b1 == Award(b0, ScoreRaises(fb, "overall_score"),
                    RGt(fb.overall_score, 85), "Star Performer")
        b2 == Award(b1, FALSE, DedicatedLearnerDue(st.sessions_completed),
                    "Dedicated Learner")
        b3 == Award(b2, FALSE, StreakBadgeDue(st.streak), "3-Day Streak")
        b4 == Award(b3, ScoreRaises(fb, "expression_score"),
                    RGt(fb.expression_score, 80), "Expression Master")
        b5 == Award(b4, ScoreRaises(fb, "voice_score"),
                    RGt(fb.voice_score, 80), "Voice Pro")
    IN  b5

\* update_progress(feedback) on date `date`: the session state it leaves,
\* the list it returns, and whether it raised instead of returning
update_progress(st, fb, date) ==
    LET s1 == UpdateStreak(st, date)
        b == AwardBadges(s1, fb)
    IN  [state |-> [s1 EXCEPT !.badges = b.badges],
         new_badges |-> IF b.raised THEN <<>> ELSE b.new_badges,
         raised |-> b.raised]

SessionState == ProgressState(sessions_completed, streak, last_session_date,
                              badges)

----------------------------------------------------------------------------
\* process_face_landmarks, the aggregation in main, analyze_audio

\* A landmark detection: no face, or the landmarks the code reads, in
\* hundredths of the normalised image coordinates.
NoFace == [face |-> FALSE, x145 |-> 0, y145 |-> 0, x374 |-> 0, y374 |-> 0,
           y61 |-> 0, y291 |-> 0, z0 |-> 0]
Face(x145, y145, x374, y374, y61, y291, z0) ==
    [face |-> TRUE, x145 |-> x145, y145 |-> y145, x374 |-> x374,
     y374 |-> y374, y61 |-> y61, y291 |-> y291, z0 |-> z0]

\* np.sqrt of a perfect square
Sqrt(k) == CHOOSE r \in 0..k : r * r = k
Abs(k) == IF k < 0 THEN -k ELSE k

FacialMetrics(expr, eye, mouth, head) ==
    [expression_diversity |-> expr, eye_movement |-> eye,
     mouth_movement |-> mouth, head_position |-> head]

process_face_landmarks(det) ==
    IF det.face
    THEN LET eye_distance == Sqrt((det.x145 - det.x374) * (det.x145 - det.x374)
                                  + (det.y145 - det.y374) * (det.y145 - det.y374))
             mouth_openness == Abs(det.y61 - det.y291)
         IN  FacialMetrics(Int2Num(0), Int2Num(eye_distance),
                           Int2Num(mouth_openness), Int2Num(det.z0 + 50))
    ELSE FacialMetrics(Int2Num(0), Int2Num(0), Int2Num(0), Int2Num(0))

\* the detections the landmark detector may report for a frame
Detections ==
    {NoFace, Face(26, 30, 74, 94, 60, 62, -5)}

MetricNames == {"expression_diversity", "eye_movement", "mouth_movement",
                "head_position"}

\* [data[metric] for data in facial_data]
Column(data, metric) == [i \in 1..Len(data) |-> data[i][metric]]

\* "Calculate average facial metrics" (facial_data non-empty)
AverageFacialMetrics(data) ==
    [metric \in MetricNames |-> np_mean(Column(data, metric))]

AudioMetrics(volume, pitch, rate, clarity) ==
    [volume |-> Int2Num(volume), pitch_variation |-> Int2Num(pitch),
     speech_rate |-> Int2Num(rate), clarity |-> Int2Num(clarity)]

\* what analyze_audio may compute from a complete clip: each value capped at
\* 100, clarity drawn from [60, 95]
AudioReadings == {AudioMetrics(5, 20, 30, 60), AudioMetrics(100, 90, 90, 95)}

\* audio_metrics = None: the caller has no audio metrics
AudioAbsent == [volume |-> JNull, pitch_variation |-> JNull,
                speech_rate |-> JNull, clarity |-> JNull]

\* audio_metrics["volume"] raises TypeError on None: with a key before the
\* try block of get_gemini_feedback, without one in generate_feedback_fallback
feedback_raises(audio) == audio = AudioAbsent

NoMetrics == FacialMetrics(Int2Num(0), Int2Num(0), Int2Num(0), Int2Num(0))
NoAudio == AudioMetrics(0, 0, 0, 0)

----------------------------------------------------------------------------
\* The remote service's possible behaviours.

\* the values of a decoded payload
Values(o, e, v, s, a, t) ==
    [overall_score |-> o, expression_score |-> e, voice_score |-> v,
     strengths |-> s, areas_to_improve |-> a, tips |-> t]

GoodValues == Values(Int2Num(88), Int2Num(90), Int2Num(86),
                     <<"remote strength">>, <<"remote area">>, <<"remote tip">>)
ModestValues == Values(Int2Num(55), Int2Num(50), Int2Num(60),
                       <<"remote strength">>, <<"remote area">>, <<"remote tip">>)
EmptyStrengths == [GoodValues EXCEPT !.strengths = <<>>]
EmptyAreas == [ModestValues EXCEPT !.areas_to_improve = <<>>]
StringScore == [GoodValues EXCEPT !.overall_score = JStr]
NoValues == Values(JNull, JNull, JNull, <<>>, <<>>, <<>>)

\* a decoded JSON object with the keys `keys`
DictPayload(keys, vals) ==
    Report("dict", keys,
           IF "overall_score" \in keys THEN vals.overall_score ELSE JNull,
           IF "expression_score" \in keys THEN vals.expression_score ELSE JNull,
           IF "voice_score" \in keys THEN vals.voice_score ELSE JNull,
           IF "strengths" \in keys THEN vals.strengths ELSE <<>>,
           IF "areas_to_improve" \in keys THEN vals.areas_to_improve ELSE <<>>,
           IF "tips" \in keys THEN vals.tips ELSE <<>>)

\* a decoded JSON array / string / number / null; for an array `names` are
\* the required field names among its elements, for a string those that
\* occur in it as substrings
OtherPayload(kind, names) ==
    Report(kind, names, JNull, JNull, JNull, <<>>, <<>>, <<>>)

Failures == {Failure(o) : o \in RaisingOutcomes \cup ElseOutcomes}

\* every behaviour, for the checks of get_gemini_feedback as a function
FeedbackRemotes ==
    Failures
    \cup {Response(DictPayload(k, v)) :
            k \in SUBSET required_fields,
            v \in {GoodValues, ModestValues, EmptyStrengths, EmptyAreas,
                   StringScore}}
    \cup {Response(OtherPayload(kind, k)) :
            kind \in {"list", "str"}, k \in {{}, {"tips"}, required_fields}}
    \cup {Response(OtherPayload(kind, {})) : kind \in {"number", "null"}}

\* the behaviours tried in the session pipeline
SessionRemotes ==
    {Failure("ConnectionError"),
     Response(DictPayload(required_fields, GoodValues)),
     Response(DictPayload(required_fields \ {"tips"}, GoodValues)),
     Response(DictPayload(required_fields, StringScore))}

\* metric inputs of get_gemini_feedback as a function
FacialInputs ==
    {FacialMetrics(Int2Num(x), Int2Num(e), Int2Num(m), Int2Num(55)) :
        x \in {0, 1, 75}, e \in {1, 70, 80}, m \in {1, 40, 60}}
AudioInputs ==
    {AudioMetrics(vol, p, r, c) :
        vol \in {1, 90}, p \in {1, 90}, r \in {1, 60, 90}, c \in {1, 90}}

\* feedback reports handed to update_progress in the progress tracker's
\* checks: what get_gemini_feedback can return (the fallback's report or an
\* unvalidated remote payload with the six keys)
Scores(o, e, v) ==
    DictPayload(required_fields,
                Values(o, e, v, <<"strength">>, <<"area">>, <<"tip">>))
ProgressFeedbacks ==
    {Scores(Int2Num(50), Int2Num(50), Int2Num(50)),
     Scores(Int2Num(50), Int2Num(50), Int2Num(90)),
     Scores(Int2Num(90), Int2Num(90), Int2Num(90)),
     Scores(JStr, Int2Num(90), Int2Num(90)),
     Scores(Int2Num(90), JStr, Int2Num(90))}

----------------------------------------------------------------------------
\* The state after the module-level initialisation of st.session_state.

Init ==
    /\ history = <<>>
    /\ badges = <<>>
    /\ sessions_completed = 0
    /\ streak = 0
    /\ last_session_date = NoDate
    /\ gemini_api_key = ""
    /\ pc = "idle"
    /\ error = "none"
    /\ st_error = FALSE
    /\ facial_data = <<>>
    /\ frames = <<>>
    /\ avg_facial_metrics = NoMetrics
    /\ audio_metrics = NoAudio
    /\ feedback = NoPayload
    /\ new_badges = <<>>
    /\ audio_thread = "not_started"
    /\ audio_file = "absent"
    /\ remote = NoRequest
    /\ today = NoDate
    /\ pre = ProgressState(0, 0, NoDate, <<>>)

progress_vars == <<badges, sessions_completed, streak, last_session_date>>
call_vars == <<feedback, new_badges, remote, today, pre>>
capture_vars == <<facial_data, frames, avg_facial_metrics, audio_metrics>>
thread_vars == <<audio_thread, audio_file>>

----------------------------------------------------------------------------
\* main(): one action per step of a script run.

\* the sidebar's text_input changes the key between recordings
SetApiKey(k) ==
    /\ pc \in {"idle", "raised"}
    /\ k # gemini_api_key
    /\ gemini_api_key' = k
    /\ UNCHANGED <<history, progress_vars, call_vars, capture_vars,
                   thread_vars, pc, error, st_error>>

\* "Start Recording": audio_thread.start(), facial_data = []
StartRecording ==
    /\ pc \in {"idle", "raised"}
    /\ Len(history) < MaxRuns
    /\ sessions_completed < MaxRuns
    /\ pc' = "loop"
    /\ error' = "none"
    /\ st_error' = FALSE
    /\ facial_data' = <<>>
    /\ frames' = <<>>
    /\ avg_facial_metrics' = NoMetrics
    /\ audio_metrics' = NoAudio
    /\ audio_thread' = "listening"
    /\ audio_file' = "absent"
    /\ feedback' = NoPayload
    /\ new_badges' = <<>>
    /\ remote' = NoRequest
    /\ UNCHANGED <<history, progress_vars, gemini_api_key, today, pre>>

\* record_audio: listen returns, open(audio_file_path, "wb") truncates the file
RecordAudioListen ==
    /\ audio_thread = "listening"
    /\ audio_thread' = "saving"
    /\ audio_file' = "partial"
    /\ UNCHANGED <<history, progress_vars, call_vars, capture_vars,
                   gemini_api_key, pc, error, st_error>>

\* record_audio: f.write(audio.get_wav_data()) and the file is closed
RecordAudioSave ==
    /\ audio_thread = "saving"
    /\ audio_thread' = "finished"
    /\ audio_file' = "complete"
    /\ UNCHANGED <<history, progress_vars, call_vars, capture_vars,
                   gemini_api_key, pc, error, st_error>>

\* record_audio: the microphone raises; the thread ends without a file
RecordAudioFail ==
    /\ audio_thread = "listening"
    /\ audio_thread' = "finished"
    /\ UNCHANGED <<history, progress_vars, call_vars, capture_vars,
                   gemini_api_key, pc, error, st_error, audio_file>>

\* the stop button is read before the block of start_button runs; in a
\* script run where start_button is True it is False
stop_button == FALSE

\* one iteration of the while loop that reads and processes a frame
CaptureFrame(det) ==
    /\ pc = "loop"
    /\ Len(facial_data) < MaxFrames
    /\ ~stop_button
    /\ frames' = Append(frames, det)
    /\ facial_data' = Append(facial_data, process_face_landmarks(det))
    /\ UNCHANGED <<history, progress_vars, call_vars, thread_vars,
                   gemini_api_key, pc, error, st_error, avg_facial_metrics,
                   audio_metrics>>

\* elapsed_time >= practice_duration or stop_button: break; cap.release()
DurationElapsed ==
    /\ pc = "loop"
    /\ pc' = "join"
    /\ UNCHANGED <<history, progress_vars, call_vars, capture_vars,
                   thread_vars, gemini_api_key, error, st_error>>

\* cap.read() gives ret = False: st.error, break; cap.release()
ReadFailure ==
    /\ pc = "loop"
    /\ ~stop_button
    /\ pc' = "join"
    /\ st_error' = TRUE
    /\ UNCHANGED <<history, progress_vars, call_vars, capture_vars,
                   thread_vars, gemini_api_key, error>>

\* JoinReturns without waiting for the thread
JoinReturns_Immediately == TRUE

\* audio_thread.join() returns once the thread has ended
JoinReturns == audio_thread = "finished"

Join ==
    /\ pc = "join"
    /\ JoinReturns
    /\ pc' = "aggregate"
    /\ UNCHANGED <<history, progress_vars, call_vars, capture_vars,
                   thread_vars, gemini_api_key, error, st_error>>

\* Aggregation giving a default-valued result for an empty list
Aggregation_Default(data) ==
    IF data = <<>>
    THEN [raised |-> FALSE, avg |-> NoMetrics]
    ELSE [raised |-> FALSE, avg |-> AverageFacialMetrics(data)]

\* avg_facial_metrics = {... for metric in facial_data[0].keys()}:
\* facial_data[0] raises IndexError on []
Aggregation(data) ==
    IF data = <<>>
    THEN [raised |-> TRUE, avg |-> NoMetrics]
    ELSE [raised |-> FALSE, avg |-> AverageFacialMetrics(data)]

Aggregate ==
    /\ pc = "aggregate"
    /\ \E r \in {Aggregation(facial_data)} :
          /\ pc' = IF r.raised THEN "raised" ELSE "analyze"
          /\ error' = IF r.raised THEN "IndexError" ELSE error
          /\ avg_facial_metrics' = r.avg
    /\ UNCHANGED <<history, progress_vars, call_vars, thread_vars,
                   gemini_api_key, st_error, facial_data, frames,
                   audio_metrics>>

\* analyze_audio(audio_file_path): librosa.load raises unless the file is there
AnalyzeAudio ==
    /\ pc = "analyze"
    /\ IF audio_file = "complete"
       THEN /\ pc' = "feedback"
            /\ audio_metrics' \in AudioReadings
            /\ UNCHANGED error
       ELSE /\ pc' = "raised"
            /\ error' = "AudioError"
            /\ UNCHANGED audio_metrics
    /\ UNCHANGED <<history, progress_vars, call_vars, thread_vars,
                   gemini_api_key, st_error, facial_data, frames,
                   avg_facial_metrics>>

\* feedback = get_gemini_feedback(avg_facial_metrics, audio_metrics, prompt);
\* no request is made without a key
GetFeedback(behaviours) ==
    /\ pc = "feedback"
    /\ IF feedback_raises(audio_metrics)
       THEN /\ pc' = "raised"
            /\ error' = "TypeError"
            /\ UNCHANGED <<remote, feedback, st_error>>
       ELSE /\ \E r \in IF gemini_api_key = "" THEN {NoRequest}
                         ELSE behaviours :
                  /\ remote' = r
                  /\ feedback' = get_gemini_feedback(avg_facial_metrics,
                                                     audio_metrics,
                                                     gemini_api_key, r)
                  /\ st_error' = (st_error \/ (gemini_api_key # ""
                                                /\ gemini_raises(r)))
            /\ pc' = "progress"
            /\ UNCHANGED error
    /\ UNCHANGED <<history, progress_vars, capture_vars, thread_vars,
                   gemini_api_key, new_badges, today, pre>>

\* the effect of update_progress(fb) on date d on st.session_state
ApplyUpdateProgress(fb, d) ==
    \E r \in {update_progress(SessionState, fb, d)} :
        /\ sessions_completed' = r.state.sessions_completed
        /\ streak' = r.state.streak
        /\ last_session_date' = r.state.last_session_date
        /\ badges' = r.state.badges
        /\ new_badges' = r.new_badges
        /\ error' = IF r.raised THEN "TypeError" ELSE "none"
        /\ today' = d
        /\ pre' = SessionState

\* new_badges = update_progress(feedback)
UpdateProgress ==
    /\ pc = "progress"
    /\ \E d \in Days :
          /\ ApplyUpdateProgress(feedback, d)
          /\ pc' = IF update_progress(SessionState, feedback, d).raised
                   THEN "raised" ELSE "save"
    /\ UNCHANGED <<history, capture_vars, thread_vars, gemini_api_key,
                   st_error, feedback, remote>>

\* st.session_state.history.append(session_data); st.rerun()
SaveSession ==
    /\ pc = "save"
    /\ history' = Append(history,
                         [date |-> today,
                          facial_metrics |-> avg_facial_metrics,
                          audio_metrics |-> audio_metrics,
                          feedback |-> feedback,
                          new_badges |-> new_badges])
    /\ pc' = "idle"
    /\ UNCHANGED <<progress_vars, call_vars, capture_vars, thread_vars,
                   gemini_api_key, error, st_error>>

Next ==
    \/ \E k \in {"", "key"} : SetApiKey(k)
    \/ StartRecording
    \/ RecordAudioListen
    \/ RecordAudioSave
    \/ RecordAudioFail
    \/ \E det \in Detections : CaptureFrame(det)
    \/ DurationElapsed
    \/ ReadFailure
    \/ Join
    \/ Aggregate
    \/ AnalyzeAudio
    \/ GetFeedback(SessionRemotes)
    \/ UpdateProgress
    \/ SaveSession

Spec == Init /\ [][Next]_vars

----------------------------------------------------------------------------
\* get_gemini_feedback as a function: every metric input, with and without
\* a key, against every behaviour of the remote service.

InitFeedback ==
    /\ history = <<>>
    /\ badges = <<>>
    /\ sessions_completed = 0
    /\ streak = 0
    /\ last_session_date = NoDate
    /\ gemini_api_key \in {"", "key"}
    /\ pc = "feedback"
    /\ error = "none"
    /\ st_error = FALSE
    /\ facial_data = <<>>
    /\ frames = <<>>
    /\ avg_facial_metrics \in FacialInputs
    /\ audio_metrics \in AudioInputs \cup {AudioAbsent}
    /\ feedback = NoPayload
    /\ new_badges = <<>>
    /\ audio_thread = "finished"
    /\ audio_file = "complete"
    /\ remote = NoRequest
    /\ today = NoDate
    /\ pre = ProgressState(0, 0, NoDate, <<>>)

NextFeedback == GetFeedback(FeedbackRemotes)

SpecFeedback == InitFeedback /\ [][NextFeedback]_vars

----------------------------------------------------------------------------
\* update_progress over sequences of calls: any date, any report that
\* get_gemini_feedback can hand over.

CallUpdateProgress ==
    \E d \in Days, fb \in ProgressFeedbacks :
        /\ UpdateStreak(SessionState, d).sessions_completed <= MaxSessions
        /\ feedback' = fb
        /\ ApplyUpdateProgress(fb, d)
        /\ UNCHANGED <<history, capture_vars, thread_vars, gemini_api_key,
                       pc, st_error, remote>>

NextProgress == CallUpdateProgress

SpecProgress == Init /\ [][NextProgress]_vars

----------------------------------------------------------------------------
\* Claims about get_gemini_feedback (checked under SpecFeedback).

\* the decoded payload is no report with all six required fields
MissingField(p) ==
    p.kind # "dict" \/ \E field \in required_fields : field \notin p.keys

\* the remote attempt failed: an exception, no candidates, or a decoded
\* payload lacking a required field
RemoteFailed(r) ==
    \/ r.outcome \in RaisingOutcomes \cup ElseOutcomes
    \/ r.outcome = "payload" /\ MissingField(r.payload)

FeedbackReturned == pc = "progress"

\* C1: with a key configured, whenever the remote attempt fails the report
\* returned is exactly the fallback's report for the same metrics.
C1_FailureYieldsFallback ==
    (FeedbackReturned /\ gemini_api_key # "" /\ RemoteFailed(remote))
        => feedback = generate_feedback_fallback(avg_facial_metrics,
                                                 audio_metrics)

\* C3: every report get_gemini_feedback returns, remote or local, has a
\* non-empty strengths list and a non-empty areas_to_improve list.
C3_ListsNeverEmpty ==
    (FeedbackReturned /\ feedback.kind = "dict")
        => feedback.strengths # <<>> /\ feedback.areas_to_improve # <<>>

----------------------------------------------------------------------------
\* Claims about the session pipeline (checked under Spec).

\* C2: a run whose capture gave at least one frame and a readable clip is
\* never aborted, whatever the remote service does: the only exceptions
\* that end a run are those of an empty capture or an unreadable clip.
C2_RemoteNeverAborts ==
    pc = "raised" => error \in {"IndexError", "AudioError"}

\* C9: a run that left the capture loop with no frame computes no average:
\* the aggregation raises, and nothing is appended to history nor changed in
\* the progress state.
C9_EmptyCaptureFails ==
    [][(facial_data = <<>> /\ pc \in {"join", "aggregate"})
          => /\ pc' \in {"join", "aggregate", "raised"}
             /\ pc' = "raised" => error' = "IndexError"
             /\ avg_facial_metrics' = avg_facial_metrics
             /\ history' = history
             /\ UNCHANGED progress_vars]_vars

\* the aggregation of an empty capture has raised, with the clip complete
C9_Witness ==
    /\ pc = "raised" /\ error = "IndexError"
    /\ facial_data = <<>> /\ audio_file = "complete"
    /\ history = <<>> /\ sessions_completed = 0

\* C10: aggregation and analyze_audio run only once the audio thread has
\* ended, so the file is never read while it is being written.
C10_JoinBeforeAggregation ==
    pc \in {"aggregate", "analyze"}
        => audio_thread = "finished" /\ audio_file # "partial"

\* analyze_audio is about to read the file after an early exit of the loop
\* on a camera read failure
C10_Witness ==
    /\ pc = "analyze" /\ st_error
    /\ audio_thread = "finished" /\ audio_file = "complete"

----------------------------------------------------------------------------
\* Claims about update_progress (checked under SpecProgress).

Called == today # NoDate
SameDayCall == Called /\ pre.last_session_date = today
Returned(badge) == InSeq(badge, new_badges)

\* C4: from last_session_date = N and streak = 2 (the badge not yet owned),
\* a call on day N+1 sets streak to 3 and returns "3-Day Streak"; a further
\* call that day leaves streak at 3 and does not return the badge.
C4_StreakBadgeOnThirdDay ==
    /\ (/\ Called
        /\ pre.last_session_date # NoDate
        /\ today = pre.last_session_date + 1
        /\ pre.streak = 2
        /\ ~InSeq("3-Day Streak", pre.badges))
           => streak = 3 /\ Returned("3-Day Streak")
    /\ (SameDayCall /\ pre.streak = 3)
           => streak = 3 /\ ~Returned("3-Day Streak")

\* C5: a call on a date more than one day after last_session_date sets
\* streak to exactly 1, adds one to sessions_completed and sets
\* last_session_date to the new date.
C5_GapResetsStreak ==
    (Called /\ pre.last_session_date # NoDate
            /\ today - pre.last_session_date > 1)
        => /\ streak = 1
           /\ sessions_completed = pre.sessions_completed + 1
           /\ last_session_date = today

\* a gap of more than a day has reset a streak of three or more
C5_Witness ==
    /\ Called /\ pre.last_session_date # NoDate
    /\ today - pre.last_session_date > 1
    /\ pre.streak >= 3 /\ streak = 1

\* C6: a call on the date of last_session_date leaves sessions_completed,
\* streak and last_session_date unchanged, and the badge rules are still
\* evaluated against the new feedback.
C6_SameDayLeavesCounters ==
    SameDayCall
        => /\ sessions_completed = pre.sessions_completed
           /\ streak = pre.streak
           /\ last_session_date = pre.last_session_date
           /\ (~ScoreRaises(feedback, "overall_score")
               /\ RGt(feedback.overall_score, 85))
                  => InSeq("Star Performer", badges)
           /\ (error = "none" /\ RGt(feedback.expression_score, 80))
                  => InSeq("Expression Master", badges)
           /\ (error = "none" /\ RGt(feedback.voice_score, 80))
                  => InSeq("Voice Pro", badges)

\* a second session of the day has unlocked a score badge
C6_Witness ==
    /\ SameDayCall
    /\ pre.sessions_completed = 1 /\ sessions_completed = 1
    /\ Returned("Star Performer")

\* C7: "Dedicated Learner" is returned by exactly the call in which
\* sessions_completed goes from 4 to 5.
C7_DedicatedLearnerOnFifth ==
    Called
        => (Returned("Dedicated Learner")
               <=> (pre.sessions_completed = 4 /\ sessions_completed = 5))

EvaluationOrder == <<"Star Performer", "Dedicated Learner", "3-Day Streak",
                     "Expression Master", "Voice Pro">>

Position(badge) == CHOOSE i \in 1..Len(EvaluationOrder) :
                       EvaluationOrder[i] = badge

\* C8: the badge list holds no badge twice and never loses one, and each
\* call returns exactly the badges it added, in evaluation order.
C8_BadgesReturnedAsAdded ==
    /\ \A i, j \in 1..Len(badges) : badges[i] = badges[j] => i = j
    /\ badges = pre.badges \o new_badges
    /\ \A i, j \in 1..Len(new_badges) :
           i < j => Position(new_badges[i]) < Position(new_badges[j])

----------------------------------------------------------------------------
\* Claims about the aggregated facial metrics (checked under Spec).

\* a >= k for a number a and an integer literal k
AtLeast(a, k) == a.n >= k * a.d

\* the average of a non-empty capture has been computed in this run
Aggregated == pc \in {"analyze", "feedback", "progress", "save"}

\* C11: every field of the averaged facial metrics handed to the feedback
\* engine is at least 1.0, for any non-empty capture.
C11_AggregateFloor ==
    Aggregated
        => \A metric \in MetricNames : AtLeast(avg_facial_metrics[metric], 1)

----------------------------------------------------------------------------
\* Further claims about update_progress (checked under SpecProgress).

\* C14: after any sequence of calls, on any dates, streak is between 0
\* and sessions_completed, and at least 1 once a call has been made.
C14_StreakWithinSessions ==
    /\ 0 <= streak
    /\ streak <= sessions_completed
    /\ Called => streak >= 1

\* a call on a date before last_session_date has counted a session and
\* left a streak of two or more as it was
C14_Witness ==
    /\ Called /\ pre.last_session_date # NoDate
    /\ today < pre.last_session_date
    /\ sessions_completed = pre.sessions_completed + 1
    /\ streak = pre.streak /\ streak >= 2 /\ streak < sessions_completed

----------------------------------------------------------------------------
\* Claims about process_face_landmarks (checked under Spec).

\* the "no signal" vector: eye 1.0, mouth 1.0, head 1.0, diversity 2.0
NoSignalDefaults ==
    FacialMetrics(Int2Num(2), Int2Num(1), Int2Num(1), Int2Num(1))

\* C12: for every frame in which no face is detected, the metrics collected
\* for it are exactly the "no signal" defaults, never a vector of zeros.
C12_NoFaceDefaults ==
    \A i \in 1..Len(frames) :
        ~frames[i].face => facial_data[i] = NoSignalDefaults

----------------------------------------------------------------------------
\* Further claims about get_gemini_feedback (checked under SpecFeedback).

\* the facial metrics of the end-to-end scenario
ScenarioMetrics ==
    FacialMetrics(Int2Num(75), Int2Num(80), Int2Num(40), Int2Num(55))

\* C13: with no audio metrics and no key, the report has overall_score =
\* expression_score = mean(expression_diversity, eye_movement,
\* mouth_movement); for the scenario metrics both are 65, strengths holds
\* "Good eye expressiveness" and areas_to_improve "Facial expressions" with
\* its mouth tip.
C13_FacialOnlyReport ==
    (gemini_api_key = "" /\ audio_metrics = AudioAbsent /\ pc # "feedback")
        => /\ FeedbackReturned
           /\ feedback.expression_score
                 = np_mean(<<avg_facial_metrics.expression_diversity,
                             avg_facial_metrics.eye_movement,
                             avg_facial_metrics.mouth_movement>>)
           /\ feedback.overall_score = feedback.expression_score
           /\ avg_facial_metrics = ScenarioMetrics
                 => /\ feedback.expression_score = Int2Num(65)
                    /\ InSeq("Good eye expressiveness", feedback.strengths)
                    /\ InSeq("Facial expressions", feedback.areas_to_improve)
                    /\ InSeq("Try to be more expressive with your mouth when speaking",
                             feedback.tips)

====
